---- MODULE Spec2Model ----
(***************************************************************************)
(* Token lists of nitpik/toolkit: the construction scan of                 *)
(* AbstractTokenList.from (buildTokenList), the list operations that keep  *)
(* the range-start index, the navigation helpers, and the C-style          *)
(* extension (original-comment table, indent decreasers).                  *)
(*                                                                         *)
(* Text offsets are those of the source (0-based); a text is a sequence of *)
(* one-character strings, so text.charAt(i) is text[i + 1].  A token is a  *)
(* record [type, value, range, id]: range is <<start, end>> or <<>> when   *)
(* the object carries no range, value is a sequence of characters, and two *)
(* records are the same object exactly when they are equal (id tells       *)
(* apart objects that agree on everything else).                           *)
(***************************************************************************)
EXTENDS Integers, Sequences, FiniteSets, TLC

VARIABLES
    text,              \* the source text handed to from()
    tokens,            \* the scanner's token array handed to from()
    options,           \* DEFAULT_OPTIONS merged with the caller's options
    list,              \* the ordered set: its members in list order
    rangeStarts,       \* this[rangeStarts]: Map from range[0] to token
    originalComments,  \* this[originalComments]: Map from token to entry
    index,             \* buildTokenList: cursor into text
    tokenIndex,        \* buildTokenList: cursor into tokens
    pc,                \* "scan": inside buildTokenList's loop; "done": list returned
    pool,              \* the token objects the caller holds for later operations
    lastOp             \* the last list operation that returned: [op, part]

vars == <<text, tokens, options, list, rangeStarts, originalComments,
          index, tokenIndex, pc, pool, lastOp>>

\* ------------------------------------------------------------------ bounds

MaxLen == 3        \* longest text handed to from()
MaxTokens == 2     \* most scanner tokens handed to from()
MaxList == 4       \* longest list the caller's operations build

\* --------------------------------------------------------------- characters

CR == "\r"
LF == "\n"
SP == " "
Chars == {"x", SP, LF, CR}

\* WHITESPACE = /\s/
WHITESPACE(c) == c \in {SP, LF, CR}

\* NEWLINE = /[\r\n]/, the default newLinePattern (the only one modelled)
NEWLINE(c) == c \in {CR, LF}

DEFAULT_OPTIONS == [lineEndings |-> <<LF>>, collapseWhitespace |-> TRUE]

\* text.charAt(i): "" outside the text
charAt(t, i) == IF i >= 0 /\ i < Len(t) THEN t[i + 1] ELSE ""

\* text.slice(from, to) for 0 <= from <= to <= text.length
slice(t, from, to) == SubSeq(t, from + 1, to)

\* isWhitespace(c, options): a non-newline whitespace character
isWhitespaceChar(c) == WHITESPACE(c) /\ ~NEWLINE(c)

\* ------------------------------------------------------------------ tokens

Undefined == [type |-> "undefined", value |-> <<>>, range |-> <<>>, id |-> "-"]

Token(type, value, range, id) ==
    [type |-> type, value |-> value, range |-> range, id |-> id]

\* if (part.range)
hasRange(part) == part.range # <<>>

\* --------------------------------------------- the ordered set (OrderedSet)
\* The members in list order are a sequence without repetition.

has(l, item) == \E i \in 1..Len(l) : l[i] = item

indexOf(l, item) == CHOOSE i \in 1..Len(l) : l[i] = item

first(l) == IF l = <<>> THEN Undefined ELSE l[1]

last(l) == IF l = <<>> THEN Undefined ELSE l[Len(l)]

next(l, item) ==
    IF has(l, item) /\ indexOf(l, item) < Len(l)
    THEN l[indexOf(l, item) + 1] ELSE Undefined

\* previous(undefined) is undefined, as for a first member
previous(l, item) ==
    IF has(l, item) /\ indexOf(l, item) > 1
    THEN l[indexOf(l, item) - 1] ELSE Undefined

\* super.add(part): appended as the last member
setAdd(l, part) == Append(l, part)

\* super.delete(part)
setDelete(l, part) ==
    LET i == indexOf(l, part) IN SubSeq(l, 1, i - 1) \o SubSeq(l, i + 1, Len(l))

\* super.insertBefore(part, relatedPart)
setInsertBefore(l, part, relatedPart) ==
    LET i == indexOf(l, relatedPart)
    IN SubSeq(l, 1, i - 1) \o <<part>> \o SubSeq(l, i, Len(l))

\* super.insertAfter(part, relatedPart)
setInsertAfter(l, part, relatedPart) ==
    LET i == indexOf(l, relatedPart)
    IN SubSeq(l, 1, i) \o <<part>> \o SubSeq(l, i + 1, Len(l))

members(l) == {l[i] : i \in 1..Len(l)}

\* findNext(matcher, start): the first member after start the matcher
\* accepts; accepted is the set of members it accepts
findNext(l, accepted, start) ==
    LET hits == {j \in 1..Len(l) : j > indexOf(l, start) /\ l[j] \in accepted}
    IN IF hits = {} THEN Undefined
       ELSE l[CHOOSE j \in hits : \A k \in hits : j <= k]

\* findPrevious(matcher, start): the last member before start the matcher
\* accepts
findPrevious(l, accepted, start) ==
    LET hits == {j \in 1..Len(l) : j < indexOf(l, start) /\ l[j] \in accepted}
    IN IF hits = {} THEN Undefined
       ELSE l[CHOOSE j \in hits : \A k \in hits : j >= k]

\* ----------------------------------------------------------- Map helpers

EmptyMap == <<>>

mapSet(m, k, v) == [x \in (DOMAIN m) \cup {k} |-> IF x = k THEN v ELSE m[x]]

mapDelete(m, k) == [x \in (DOMAIN m) \ {k} |-> m[x]]

mapGet(m, k) == IF k \in DOMAIN m THEN m[k] ELSE Undefined

\* ------------------------------------------- AbstractTokenList: predicates

CommentTypes == {"LineComment", "BlockComment"}

isWhitespace(token) == token.type = "Whitespace"

isLineBreak(token) == token.type = "LineBreak"

isWhitespaceOrLineBreak(token) == isWhitespace(token) \/ isLineBreak(token)

\* token.type.endsWith("Comment")
isComment(token) == token.type \in CommentTypes

isIndent(l, token) ==
    LET prev == previous(l, token)
    IN isWhitespace(token) /\ (prev = Undefined \/ isLineBreak(prev))

isEmpty(l) == first(l) = Undefined

getByRangeStart(rs, start) == mapGet(rs, start)

\* ------------------------------------------ AbstractTokenList: navigation

RECURSIVE walkToLineBreak(_, _)
\* while (previousToken && !this.isLineBreak(previousToken))
walkToLineBreak(l, previousToken) ==
    IF previousToken # Undefined /\ ~isLineBreak(previousToken)
    THEN walkToLineBreak(l, previous(l, previousToken))
    ELSE previousToken

findPreviousLineBreak(l, token) == walkToLineBreak(l, previous(l, token))

RECURSIVE walkToIndentPastBreaks(_, _)
\* (a slip: the walk does not stop at a line break)
walkToIndentPastBreaks(l, previousToken) ==
    IF previousToken # Undefined /\ ~isIndent(l, previousToken)
    THEN walkToIndentPastBreaks(l, previous(l, previousToken))
    ELSE previousToken

RECURSIVE walkToIndent(_, _)
\* while (previousToken && !this.isIndent(previousToken))
walkToIndent(l, previousToken) ==
    IF previousToken # Undefined /\ ~isIndent(l, previousToken)
    THEN IF isLineBreak(previousToken) THEN Undefined
         ELSE walkToIndent(l, previous(l, previousToken))
    ELSE previousToken

findPreviousIndent(l, token) == walkToIndent(l, previous(l, token))

\* (a slip: the comment test looks at the start token)
nextTokenOfStart(l, startToken) ==
    findNext(l, {token \in members(l) : ~isWhitespaceOrLineBreak(token)
                                /\ ~isComment(startToken)}, startToken)

nextToken(l, startToken) ==
    findNext(l, {token \in members(l) : ~isWhitespaceOrLineBreak(token)
                                /\ ~isComment(token)}, startToken)

nextTokenOrComment(l, startToken) ==
    findNext(l, {token \in members(l) : ~isWhitespaceOrLineBreak(token)}, startToken)

\* the matcher tests isComment(startToken), as the source does
previousToken(l, startToken) ==
    findPrevious(l, {token \in members(l) : ~isWhitespaceOrLineBreak(token)
                                    /\ ~isComment(startToken)}, startToken)

previousTokenOrComment(l, startToken) ==
    findPrevious(l, {token \in members(l) : ~isWhitespaceOrLineBreak(token)}, startToken)

findFirstTokenOrCommentOnLine(l, token) ==
    LET lineBreak == findPreviousLineBreak(l, token)
    IN IF lineBreak # Undefined THEN nextTokenOrComment(l, lineBreak)
       ELSE first(l)

\* ------------------------------------------------------- CStyleTokenList

INDENT_DECREASE_CHARS == {<<"}">>, <<"]">>, <<")">>}

isIndentDecreaser(l, token) ==
    IF token.value \in INDENT_DECREASE_CHARS
    THEN LET lineBreak == findPreviousLineBreak(l, token)
         IN lineBreak = Undefined \/ nextToken(l, lineBreak) = token
    ELSE FALSE

\* (a slip: any whitespace before the comment counts as its indent)
originalCommentsAfterAnyWhitespace(l) ==
    [token \in {m \in {l[i] : i \in 1..Len(l)} :
                    isComment(m) /\ isWhitespace(previous(l, m))} |->
        [value |-> token.value, indent |-> previous(l, token).value]]

\* the table CStyleTokenList.from fills from the list it has built
originalCommentsOf(l) ==
    [token \in {m \in {l[i] : i \in 1..Len(l)} :
                    isComment(m) /\ isIndent(l, previous(l, m))} |->
        [value |-> token.value, indent |-> previous(l, token).value]]

\* this[originalComments].get(token) || ""
getOriginalComment(oc, token) == IF token \in DOMAIN oc THEN oc[token] ELSE <<>>

\* ------------------------------------------------- list.add(part) and co.
\* A list is the pair (members, range-start index).

rangeStart(part) == part.range[1]

rangeEnd(part) == part.range[2]

\* add(part), insertAfter(part, _), insertBefore(part, _): the index update
indexAfterInsert(rs, part) ==
    IF hasRange(part) THEN mapSet(rs, rangeStart(part), part) ELSE rs

\* (a slip: the entry of a deleted token is kept)
indexAfterDeleteKept(rs, part) == rs

\* delete(part): the index update
indexAfterDelete(rs, part) ==
    IF hasRange(part) THEN mapDelete(rs, rangeStart(part)) ELSE rs

\* ---------------------------------------------------------- buildTokenList

\* tokens[tokenIndex]
tokenAt(toks, ti) == IF ti < Len(toks) THEN toks[ti + 1] ELSE Undefined

\* (a slip: the "\r" is never looked past)
lineBreakEndNoPeek(t, i) == i

\* the index stored as range[1] of a LineBreak: startIndex, or one more when
\* the "\r" is followed by "\n"
lineBreakEnd(t, i) ==
    IF charAt(t, i) = CR /\ charAt(t, i + 1) = LF THEN i + 1 ELSE i

lineBreakToken(t, opts, i) ==
    Token("LineBreak", opts.lineEndings, <<i, lineBreakEnd(t, i)>>, "-")

RECURSIVE whitespaceEnd(_, _)
\* do { index++ } while (isWhitespace(text.charAt(index), options))
whitespaceEnd(t, i) ==
    IF isWhitespaceChar(charAt(t, i + 1)) THEN whitespaceEnd(t, i + 1) ELSE i + 1

\* (a slip: an indent is collapsed like any other run)
whitespaceValueNoIndent(l, t, opts, from, to) ==
    IF opts.collapseWhitespace THEN <<SP>> ELSE slice(t, from, to)

whitespaceValue(l, t, opts, from, to) ==
    IF opts.collapseWhitespace /\ ~isLineBreak(last(l)) /\ ~isEmpty(l)
    THEN <<SP>>
    ELSE slice(t, from, to)

whitespaceToken(l, t, opts, i) ==
    Token("Whitespace", whitespaceValue(l, t, opts, i, whitespaceEnd(t, i)),
          <<i, whitespaceEnd(t, i)>>, "-")

\* which branch one iteration of the loop takes at (index, tokenIndex)
branchOf(toks, t, i, ti) ==
    IF tokenAt(toks, ti) # Undefined /\ rangeStart(tokenAt(toks, ti)) = i
    THEN "token"
    ELSE IF NEWLINE(charAt(t, i)) THEN "linebreak"
    ELSE IF isWhitespaceChar(charAt(t, i)) THEN "whitespace"
    ELSE "none"

\* one iteration of while (index < text.length): the scan state after it
buildStep(st, toks, t, opts) ==
    LET b == branchOf(toks, t, st.index, st.tokenIndex)
        part == CASE b = "token" -> tokenAt(toks, st.tokenIndex)
                  [] b = "linebreak" -> lineBreakToken(t, opts, st.index)
                  [] b = "whitespace" -> whitespaceToken(st.list, t, opts, st.index)
                  [] OTHER -> Undefined
    IN IF b = "none" THEN st
       ELSE [list |-> setAdd(st.list, part),
             rangeStarts |-> indexAfterInsert(st.rangeStarts, part),
             index |-> CASE b = "token" -> rangeEnd(part)
                         [] b = "linebreak" -> lineBreakEnd(t, st.index) + 1
                         [] OTHER -> whitespaceEnd(t, st.index),
             tokenIndex |-> IF b = "token" THEN st.tokenIndex + 1
                            ELSE st.tokenIndex]

RECURSIVE buildFrom(_, _, _, _)
\* the loop run to its end from a scan state (an iteration that changes
\* nothing repeats for ever: the state it is stuck in is returned)
buildFrom(st, toks, t, opts) ==
    IF st.index < Len(t) /\ buildStep(st, toks, t, opts) # st
    THEN buildFrom(buildStep(st, toks, t, opts), toks, t, opts)
    ELSE st

\* the members of the list from() returns for (tokens, text, options)
buildTokenList(toks, t, opts) ==
    buildFrom([list |-> <<>>, rangeStarts |-> EmptyMap, index |-> 0,
               tokenIndex |-> 0], toks, t, opts).list

scanState == [list |-> list, rangeStarts |-> rangeStarts,
              index |-> index, tokenIndex |-> tokenIndex]

\* ------------------------------------------------------------- the inputs

Texts == UNION {[1..n -> Chars] : n \in 0..MaxLen}

Ranges(n) == {r \in (0..n) \X (0..n) : r[1] <= r[2]}

\* sorted by range, non-overlapping, within the text, no range twice
RangeArrays(n) ==
    {rs \in UNION {[1..k -> Ranges(n)] : k \in 0..MaxTokens} :
        \A i \in 1..(Len(rs) - 1) : rs[i][2] <= rs[i + 1][1] /\ rs[i] # rs[i + 1]}

ScannerTypes == {"Punctuator", "LineComment"}

\* a scanner token of the text: its value is the text of its range
scannerToken(t, type, r) == Token(type, slice(t, r[1], r[2]), r, "-")

TokenArrays(t, types) ==
    {[i \in 1..Len(rs) |-> scannerToken(t, ty[i], rs[i])] :
        <<rs, ty>> \in {p \in RangeArrays(Len(t)) \X [1..MaxTokens -> types] : TRUE}}

OptionSets == [lineEndings : {<<LF>>, <<CR, LF>>}, collapseWhitespace : BOOLEAN]

NoOp == [op |-> "none", part |-> Undefined]

\* ------------------------------------------------ AbstractTokenList.from()

InitBuild ==
    /\ text \in Texts
    /\ tokens \in TokenArrays(text, {"Punctuator"})
    /\ options \in OptionSets
    /\ list = <<>>
    /\ rangeStarts = EmptyMap
    /\ originalComments = EmptyMap
    /\ index = 0
    /\ tokenIndex = 0
    /\ pc = "scan"
    /\ pool = {}
    /\ lastOp = NoOp

\* one iteration of the loop of buildTokenList
ScanStep ==
    /\ pc = "scan"
    /\ index < Len(text)
    /\ LET st == buildStep(scanState, tokens, text, options)
       IN /\ list' = st.list
          /\ rangeStarts' = st.rangeStarts
          /\ index' = st.index
          /\ tokenIndex' = st.tokenIndex
    /\ UNCHANGED <<text, tokens, options, originalComments, pc, pool, lastOp>>

\* the loop ends and AbstractTokenList.from returns the list
Return ==
    /\ pc = "scan"
    /\ index >= Len(text)
    /\ pc' = "done"
    /\ UNCHANGED <<text, tokens, options, list, rangeStarts, originalComments,
                   index, tokenIndex, pool, lastOp>>

NextBuild == ScanStep \/ Return

SpecBuild == InitBuild /\ [][NextBuild]_vars

\* ------------------------------------------------------ list operations
\* A call that throws (add of a member, delete of a non-member, insert next
\* to a non-member) leaves the list as it was: super's call throws before
\* the index is touched.  Only the calls that return are steps.

\* add(part)
Add ==
    \E part \in pool :
        /\ pc = "done"
        /\ ~has(list, part)
        /\ Len(list) < MaxList
        /\ list' = setAdd(list, part)
        /\ rangeStarts' = indexAfterInsert(rangeStarts, part)
        /\ lastOp' = [op |-> "add", part |-> part]
        /\ UNCHANGED <<text, tokens, options, originalComments, index,
                       tokenIndex, pc, pool>>

\* delete(part)
Delete ==
    \E part \in members(list) :
        /\ pc = "done"
        /\ list' = setDelete(list, part)
        /\ rangeStarts' = indexAfterDelete(rangeStarts, part)
        /\ lastOp' = [op |-> "delete", part |-> part]
        /\ UNCHANGED <<text, tokens, options, originalComments, index,
                       tokenIndex, pc, pool>>

\* insertAfter(part, relatedPart)
InsertAfter ==
    \E part \in pool, relatedPart \in members(list) :
        /\ pc = "done"
        /\ ~has(list, part)
        /\ Len(list) < MaxList
        /\ list' = setInsertAfter(list, part, relatedPart)
        /\ rangeStarts' = indexAfterInsert(rangeStarts, part)
        /\ lastOp' = [op |-> "insertAfter", part |-> part]
        /\ UNCHANGED <<text, tokens, options, originalComments, index,
                       tokenIndex, pc, pool>>

\* insertBefore(part, relatedPart)
InsertBefore ==
    \E part \in pool, relatedPart \in members(list) :
        /\ pc = "done"
        /\ ~has(list, part)
        /\ Len(list) < MaxList
        /\ list' = setInsertBefore(list, part, relatedPart)
        /\ rangeStarts' = indexAfterInsert(rangeStarts, part)
        /\ lastOp' = [op |-> "insertBefore", part |-> part]
        /\ UNCHANGED <<text, tokens, options, originalComments, index,
                       tokenIndex, pc, pool>>

\* ------------------------------------- new TokenList() and its operations

Copies == {"a", "b"}

\* tokens of every kind the navigation tells apart; two whitespaces and two
\* line breaks, so that a line can be empty or indented more than once
NavPool ==
    {Token("Whitespace", <<SP>>, <<>>, id) : id \in Copies}
    \cup {Token("LineBreak", <<LF>>, <<>>, id) : id \in Copies}
    \cup {Token("LineComment", <<"/", "/">>, <<>>, "a"),
          Token("Punctuator", <<"}">>, <<>>, "a"),
          Token("Identifier", <<"x">>, <<>>, "a")}

\* tokens with and without a range, two of them starting at each offset
RangePool ==
    {Token("Identifier", <<"x">>, r, id) :
        r \in {<<>>, <<0, 1>>, <<1, 2>>}, id \in Copies}

InitList ==
    /\ text = <<>>
    /\ tokens = <<>>
    /\ options = DEFAULT_OPTIONS
    /\ list = <<>>
    /\ rangeStarts = EmptyMap
    /\ originalComments = EmptyMap
    /\ index = 0
    /\ tokenIndex = 0
    /\ pc = "done"
    /\ pool \in {NavPool, RangePool}
    /\ lastOp = NoOp

NextList == Add \/ Delete \/ InsertAfter \/ InsertBefore

SpecList == InitList /\ [][NextList]_vars

\* -------------------------------------------------- CStyleTokenList.from()

\* the scanner's tokens of a text: its maximal runs of non-whitespace
\* characters, as [start, end) ranges
WordRanges(t) ==
    {r \in Ranges(Len(t)) :
        /\ r[1] < r[2]
        /\ \A k \in r[1]..(r[2] - 1) : ~WHITESPACE(charAt(t, k))
        /\ WHITESPACE(charAt(t, r[1] - 1)) \/ r[1] = 0
        /\ WHITESPACE(charAt(t, r[2])) \/ r[2] = Len(t)}

RECURSIVE sortedRanges(_)
sortedRanges(rs) ==
    IF rs = {} THEN <<>>
    ELSE LET r == CHOOSE x \in rs : \A y \in rs : x[1] <= y[1]
         IN <<r>> \o sortedRanges(rs \ {r})

\* each word a comment or a punctuator
WordTokenArrays(t) ==
    LET rs == sortedRanges(WordRanges(t))
    IN {[i \in 1..Len(rs) |-> scannerToken(t, ty[i], rs[i])] :
            ty \in [1..Len(rs) -> ScannerTypes]}

\* what the caller may insert later: a comment and a whitespace of its own
CStylePool ==
    {Token("LineComment", <<"/", "/">>, <<>>, "a"),
     Token("Whitespace", <<SP>>, <<>>, "a")}

InitCStyle ==
    /\ text \in Texts
    /\ tokens \in WordTokenArrays(text)
    /\ options = DEFAULT_OPTIONS
    /\ list = <<>>
    /\ rangeStarts = EmptyMap
    /\ originalComments = EmptyMap
    /\ index = 0
    /\ tokenIndex = 0
    /\ pc = "scan"
    /\ pool = CStylePool
    /\ lastOp = NoOp

\* the loop ends; CStyleTokenList.from records the indent-preceded comments
\* and returns the list
ReturnCStyle ==
    /\ pc = "scan"
    /\ index >= Len(text)
    /\ originalComments' = originalCommentsOf(list)
    /\ pc' = "done"
    /\ UNCHANGED <<text, tokens, options, list, rangeStarts, index,
                   tokenIndex, pool, lastOp>>

NextCStyle ==
    ScanStep \/ ReturnCStyle \/ Add \/ Delete \/ InsertAfter \/ InsertBefore

SpecCStyle == InitCStyle /\ [][NextCStyle]_vars

\* ---------------------------------------------------- claims on from()

\* the ranges of the members, in list order, tile the text
Tiles(l, t) ==
    IF l = <<>> THEN Len(t) = 0
    ELSE /\ l[1].range[1] = 0
         /\ \A i \in 2..Len(l) : l[i].range[1] = l[i - 1].range[2]
         /\ l[Len(l)].range[2] = Len(t)

\* C1: after from(), the members' ranges tile the text exactly: the first
\* starts at 0, each starts where its predecessor ends, the last ends at
\* text.length.
C1_RangesTileText == pc = "done" => Tiles(list, text)

\* the scanner tokens among the members, in list order
scannerMembers(l, toks) ==
    SelectSeq(l, LAMBDA m : \E i \in 1..Len(toks) : toks[i] = m)

\* C2: after from(), every scanner token is a member, unchanged, and the
\* scanner tokens keep their relative order.
C2_ScannerTokensKept == pc = "done" => scannerMembers(list, tokens) = tokens

\* no scanner token starts at the cursor
noTokenAtCursor ==
    ~(tokenIndex < Len(tokens) /\ tokens[tokenIndex + 1].range[1] = index)

\* the loop is about to look at a line terminator
atLineTerminator ==
    /\ pc = "scan" /\ index < Len(text) /\ noTokenAtCursor
    /\ text[index + 1] \in {CR, LF}

\* the number of characters of the terminator at the cursor
terminatorLength ==
    IF text[index + 1] = CR /\ index + 2 <= Len(text) /\ text[index + 2] = LF
    THEN 2 ELSE 1

\* a "\r\n" whose two characters each start a LineBreak member
crlfSplit(l, t) ==
    \E i, j \in 1..Len(l) :
        /\ isLineBreak(l[i]) /\ isLineBreak(l[j])
        /\ l[j].range[1] = l[i].range[1] + 1
        /\ charAt(t, l[i].range[1]) = CR /\ charAt(t, l[j].range[1]) = LF

\* C8: a line terminator outside scanner tokens ("\r\n" as one unit, else a
\* lone "\r" or "\n") appends exactly one LineBreak whose value is
\* options.lineEndings, the cursor moves past all its characters, and no
\* "\r\n" ever yields two LineBreak tokens.
C8_OneLineBreakPerTerminator ==
    /\ [](~crlfSplit(list, text))
    /\ [][atLineTerminator =>
            /\ Len(list') = Len(list) + 1
            /\ SubSeq(list', 1, Len(list)) = list
            /\ list'[Len(list')].type = "LineBreak"
            /\ list'[Len(list')].value = options.lineEndings
            /\ list'[Len(list')].range[1] = index
            /\ index' = index + terminatorLength
            /\ tokenIndex' = tokenIndex]_vars

\* C8 witness: a "\r\n" was taken as one LineBreak whose value is not the
\* source's, and the cursor is past both characters
C8_Witness ==
    /\ pc = "done"
    /\ \E i \in 1..Len(list) :
        /\ isLineBreak(list[i])
        /\ charAt(text, list[i].range[1]) = CR
        /\ charAt(text, list[i].range[1] + 1) = LF
        /\ list[i].value = <<LF>>
        /\ index >= list[i].range[1] + 2

\* the loop is about to look at a non-newline whitespace character
atWhitespaceRun ==
    /\ pc = "scan" /\ index < Len(text) /\ noTokenAtCursor
    /\ text[index + 1] = SP

\* the end of the maximal run of non-newline whitespace that starts at i
runEnd(t, i) ==
    CHOOSE q \in (i + 1)..Len(t) :
        /\ \A k \in i..(q - 1) : charAt(t, k) = SP
        /\ charAt(t, q) # SP

\* the run at the cursor is no indent: the list has a last member and it is
\* no LineBreak
midLine(l) == l # <<>> /\ l[Len(l)].type # "LineBreak"

gapsAreBlank(toks, t) ==
    \A k \in 0..(Len(t) - 1) :
        (\A i \in 1..Len(toks) : ~(toks[i].range[1] <= k /\ k < toks[i].range[2]))
            => charAt(t, k) \in {SP, CR, LF}

\* C12: when every character outside the token ranges is whitespace or a
\* line terminator, every iteration of the scan before the end of the text
\* moves the text cursor or the token cursor forward, so the scan ends.
C12_ScanAdvances ==
    pc = "scan" /\ index < Len(text) /\ gapsAreBlank(tokens, text) =>
        LET st == buildStep(scanState, tokens, text, options)
        IN st.index > index \/ st.tokenIndex > tokenIndex

\* ------------------------------------------- claims on the list operations

\* C3: right after add, insertBefore or insertAfter of a ranged token t,
\* getByRangeStart(t.range[0]) is t; right after delete(t) it is undefined.
C3_IndexFollowsLastOp ==
    /\ lastOp.op \in {"add", "insertBefore", "insertAfter"} /\ hasRange(lastOp.part)
        => getByRangeStart(rangeStarts, lastOp.part.range[1]) = lastOp.part
    /\ lastOp.op = "delete" /\ hasRange(lastOp.part)
        => getByRangeStart(rangeStarts, lastOp.part.range[1]) = Undefined

\* C3 witness: a ranged token was just deleted while a ranged token inserted
\* earlier is still found by its start
C3_Witness ==
    /\ lastOp.op = "delete" /\ hasRange(lastOp.part)
    /\ \E i \in 1..Len(list) :
        /\ hasRange(list[i])
        /\ getByRangeStart(rangeStarts, list[i].range[1]) = list[i]

\* C13: getByRangeStart(o) returns a token iff some member has range[0] = o,
\* and the token it returns is a member with range[0] = o.
C13_IndexAgreesWithMembers ==
    \A o \in (DOMAIN rangeStarts)
              \cup {m.range[1] : m \in {x \in members(list) : hasRange(x)}} :
        LET found == getByRangeStart(rangeStarts, o)
        IN /\ found # Undefined <=>
                \E m \in members(list) : hasRange(m) /\ m.range[1] = o
           /\ found # Undefined =>
                has(list, found) /\ found.range[1] = o

\* ----------------------------------------------- claims on the navigation

\* positions of the members that are no whitespace and no line break
nonBlankAt(l) ==
    {j \in 1..Len(l) : l[j].type \notin {"Whitespace", "LineBreak"}}

\* positions of the members that are, besides, no comment
codeAt(l) ==
    {j \in nonBlankAt(l) : l[j].type \notin {"LineComment", "BlockComment"}}

\* the member at the greatest position of S below i
lastBefore(l, i, S) ==
    LET hits == {j \in S : j < i}
    IN IF hits = {} THEN Undefined
       ELSE l[CHOOSE j \in hits : \A k \in hits : k <= j]

\* the member at the least position of S above i
firstAfter(l, i, S) ==
    LET hits == {j \in S : j > i}
    IN IF hits = {} THEN Undefined
       ELSE l[CHOOSE j \in hits : \A k \in hits : j <= k]

\* C4: previousToken(t) is the nearest member before t that is no
\* whitespace, no line break and no comment, or undefined; never a comment,
\* whatever t is.
C4_PreviousTokenSkipsComments ==
    \A i \in 1..Len(list) :
        previousToken(list, list[i]) = lastBefore(list, i, codeAt(list))

\* C5: nextToken(t) is the nearest member after t that is no whitespace, no
\* line break and no comment; nextTokenOrComment(t) the nearest that is no
\* whitespace and no line break; undefined when there is none.
C5_NextTokens ==
    \A i \in 1..Len(list) :
        /\ nextToken(list, list[i]) = firstAfter(list, i, codeAt(list))
        /\ nextTokenOrComment(list, list[i]) = firstAfter(list, i, nonBlankAt(list))

\* C5 witness: after a token come a whitespace, a comment and a token:
\* nextTokenOrComment stops at the comment, nextToken goes past it
C5_Witness ==
    \E i \in 1..Len(list) :
        /\ isWhitespace(next(list, list[i]))
        /\ isComment(nextTokenOrComment(list, list[i]))
        /\ nextToken(list, list[i]) # Undefined
        /\ ~isComment(nextToken(list, list[i]))

\* the position where the line of the member at i starts
lineStartAt(l, i) ==
    LET breaks == {j \in 1..(i - 1) : l[j].type = "LineBreak"}
    IN IF breaks = {} THEN 1
       ELSE 1 + CHOOSE j \in breaks : \A k \in breaks : k <= j

\* the position where the line of the member at i ends
lineEndAt(l, i) ==
    LET breaks == {j \in i..Len(l) : l[j].type = "LineBreak"}
    IN IF breaks = {} THEN Len(l)
       ELSE CHOOSE j \in breaks : \A k \in breaks : j <= k

\* only whitespace lies between the start of the line and the member at i
firstOnLine(l, i) ==
    \A j \in lineStartAt(l, i)..(i - 1) : l[j].type = "Whitespace"

\* C6: isIndentDecreaser(t) is true exactly when t.value is "}", "]" or ")"
\* and only whitespace lies between t and the previous line break (or the
\* start of the list): a comment or a token before it on the line rules it out.
C6_IndentDecreaserFirstOnLine ==
    \A i \in 1..Len(list) :
        isIndentDecreaser(list, list[i]) <=>
            /\ list[i].value \in {<<"}">>, <<"]">>, <<")">>}
            /\ firstOnLine(list, i)

\* C7: on a line that holds a token or comment, findFirstTokenOrCommentOnLine
\* of any member of the line is the first member of the line that is no
\* whitespace and no line break.
C7_FirstTokenOrCommentOnLine ==
    \A i \in 1..Len(list) :
        LET line == lineStartAt(list, i)..lineEndAt(list, i)
            hits == line \cap nonBlankAt(list)
        IN hits # {} =>
            findFirstTokenOrCommentOnLine(list, list[i]) =
                list[CHOOSE j \in hits : \A k \in hits : j <= k]

\* C11: findPreviousIndent(t) is the indent that starts t's own line (a
\* whitespace with nothing or a line break before it) when it lies before t,
\* and undefined when the line break or the start of the list comes first:
\* never an indent of an earlier line.
C11_PreviousIndentOfOwnLine ==
    \A i \in 1..Len(list) :
        findPreviousIndent(list, list[i]) =
            IF lineStartAt(list, i) < i
               /\ list[lineStartAt(list, i)].type = "Whitespace"
            THEN list[lineStartAt(list, i)]
            ELSE Undefined

\* C11 witness: the first line is indented and its token finds the indent;
\* a token of a later line without indent finds none
C11_Witness ==
    \E i, j \in 1..Len(list) :
        /\ i < j
        /\ ~isWhitespaceOrLineBreak(list[i])
        /\ isIndent(list, findPreviousIndent(list, list[i]))
        /\ lineStartAt(list, j) > i
        /\ ~isWhitespaceOrLineBreak(list[j])
        /\ findPreviousIndent(list, list[j]) = Undefined

\* ------------------------------------------- claims on CStyleTokenList

\* the entry from() records for t in the list it built, "" when it records none
originalEntry(built, t) ==
    IF \E i \in 2..Len(built) :
            /\ built[i] = t
            /\ t.type \in {"LineComment", "BlockComment"}
            /\ built[i - 1].type = "Whitespace"
            /\ i = 2 \/ built[i - 2].type = "LineBreak"
    THEN [value |-> t.value,
          indent |-> built[(CHOOSE i \in 2..Len(built) : built[i] = t) - 1].value]
    ELSE <<>>

\* C10: once from() has returned, and after any later add, delete,
\* insertBefore or insertAfter, getOriginalComment(t) is the entry
\* {value, indent} for exactly the comments that an indent preceded in the
\* list from() built, and "" for every other token.
C10_OriginalCommentsFrozen ==
    pc = "done" =>
        LET built == buildTokenList(tokens, text, options)
        IN \A t \in members(list) \cup pool \cup members(built) :
              getOriginalComment(originalComments, t) = originalEntry(built, t)

\* C10 witness: a recorded comment has been deleted and still has its entry,
\* and a comment inserted after an indent has none
C10_Witness ==
    /\ pc = "done"
    /\ \E t \in DOMAIN originalComments : ~has(list, t)
    /\ \E i \in 2..Len(list) :
        /\ isComment(list[i]) /\ isIndent(list, list[i - 1])
        /\ getOriginalComment(originalComments, list[i]) = <<>>

====
